---------------------------- MODULE Spec2Model ----------------------------
(***************************************************************************)
(* Forward render queue (NzForwardRenderQueue) and light node (NzLight) of *)
(* the Nazara Engine, as state machines.                                   *)
(*                                                                         *)
(* Objects (lights, drawables, materials, meshes, buffers, shaders) are    *)
(* named by their address, a positive integer; 0 is the null pointer.      *)
(* Pointer comparisons of the source are comparisons of these addresses.   *)
(***************************************************************************)
EXTENDS Integers, Sequences, FiniteSets, TLC

(***************************************************************************)
(* Bounds of the model                                                     *)
(***************************************************************************)
\* Largest number of elements the seven containers hold together.
MaxQueue == 3
\* Highest light unit Enable and Disable are called with.
MaxLightUnit == 2

(***************************************************************************)
(* Program constants                                                       *)
(***************************************************************************)
NAZARA_GRAPHICS_SAFE == 1
nzLightType_Directional == 0
nzLightType_Point == 1
nzLightType_Spot == 2
\* A value outside the enumeration, as static_cast<nzLightType>(3) gives.
nzLightType_Invalid == nzLightType_Spot + 1
DefaultRadius == 5
DefaultOuterAngle == 45
DefaultInnerAngle == 15
\* The factors of a light are floats between 0 and 1: hundredths here.
DefaultAttenuation == 90
DefaultDiffuseFactor == 100
DefaultAmbientFactor == 20

NullPtr == 0

LightTypeValues ==
    {nzLightType_Directional, nzLightType_Point, nzLightType_Spot, nzLightType_Invalid}

(***************************************************************************)
(* Vectors, matrices, planes                                               *)
(***************************************************************************)
Vec(x, y, z) == <<x, y, z>>

VecZero == Vec(0, 0, 0)

Dot(a, b) == a[1] * b[1] + a[2] * b[2] + a[3] * b[3]

\* A transform matrix: its translation row and a uniform scale standing for
\* the rest of the matrix (two matrices may share a translation).
Matrix(t, s) == [translation |-> t, scale |-> s]

GetTranslation(m) == m.translation

\* Signed distance from a plane (unit normal, offset) to a point.
PlaneDistance(plane, point) == Dot(plane.normal, point) - plane.distance

(***************************************************************************)
(* The scene: the objects the queue is handed references to                *)
(***************************************************************************)
\* NzMaterial objects by address: custom shader (NullPtr when none), shader
\* flags, alpha blending.
MaterialTable ==
    11 :> [customShader |-> NullPtr, shaderFlags |-> 1, alphaBlending |-> FALSE] @@
    12 :> [customShader |-> NullPtr, shaderFlags |-> 1, alphaBlending |-> TRUE] @@
    13 :> [customShader |-> 71,      shaderFlags |-> 0, alphaBlending |-> FALSE] @@
    14 :> [customShader |-> NullPtr, shaderFlags |-> 2, alphaBlending |-> TRUE] @@
    15 :> [customShader |-> 70,      shaderFlags |-> 3, alphaBlending |-> FALSE] @@
    16 :> [customShader |-> 71,      shaderFlags |-> 0, alphaBlending |-> FALSE] @@
    17 :> [customShader |-> NullPtr, shaderFlags |-> 0, alphaBlending |-> FALSE]

Materials == DOMAIN MaterialTable

GetCustomShader(mat) == MaterialTable[mat].customShader

GetShaderFlags(mat) == MaterialTable[mat].shaderFlags

IsAlphaBlendingEnabled(mat) == MaterialTable[mat].alphaBlending

\* NzIndexBuffer / NzVertexBuffer objects by address: the NzBuffer storing them.
BufferTable == 51 :> 31 @@ 61 :> 42 @@ 62 :> 43

GetBuffer(b) == BufferTable[b]

\* NzStaticMesh objects by address: index buffer (NullPtr when the mesh has
\* none) and vertex buffer.  Meshes 21 and 22 share both buffers.
StaticMeshTable ==
    21 :> [indexBuffer |-> 51,      vertexBuffer |-> 61] @@
    22 :> [indexBuffer |-> 51,      vertexBuffer |-> 61] @@
    23 :> [indexBuffer |-> NullPtr, vertexBuffer |-> 62]

StaticMeshes == DOMAIN StaticMeshTable

GetIndexBuffer(subMesh) == StaticMeshTable[subMesh].indexBuffer

GetVertexBuffer(subMesh) == StaticMeshTable[subMesh].vertexBuffer

\* NzSkeletalMesh objects by address.
SkeletalMeshes == {25}

SubMesh(anim, mesh, materialIndex) ==
    [animationType |-> anim, mesh |-> mesh, materialIndex |-> materialIndex]

\* NzModel objects by address: drawable flag, world transform, the submeshes
\* of its mesh and its material table (indexed from 0).
ModelTable ==
    81 :> [drawable |-> TRUE, transformMatrix |-> Matrix(Vec(0, 0, -4), 1),
           subMeshes |-> <<SubMesh("Static", 21, 0)>>, materials |-> <<11>>] @@
    82 :> [drawable |-> TRUE, transformMatrix |-> Matrix(Vec(0, 0, -2), 1),
           subMeshes |-> <<SubMesh("Static", 21, 0)>>, materials |-> <<11>>] @@
    83 :> [drawable |-> TRUE, transformMatrix |-> Matrix(Vec(0, 0, -4), 2),
           subMeshes |-> <<SubMesh("Static", 21, 0)>>, materials |-> <<12>>] @@
    84 :> [drawable |-> TRUE, transformMatrix |-> Matrix(Vec(3, 0, -2), 1),
           subMeshes |-> <<SubMesh("Static", 22, 1), SubMesh("Skeletal", 25, 1),
                           SubMesh("Static", 22, 0)>>,
           materials |-> <<11, 12>>] @@
    85 :> [drawable |-> FALSE, transformMatrix |-> Matrix(Vec(0, 0, -4), 1),
           subMeshes |-> <<SubMesh("Static", 21, 0)>>, materials |-> <<11>>] @@
    86 :> [drawable |-> TRUE, transformMatrix |-> Matrix(Vec(1, 0, -4), 1),
           subMeshes |-> <<SubMesh("Static", 23, 0)>>, materials |-> <<14>>] @@
    87 :> [drawable |-> TRUE, transformMatrix |-> Matrix(Vec(2, 0, -6), 1),
           subMeshes |-> <<SubMesh("Static", 23, 0)>>, materials |-> <<13>>]

Models == DOMAIN ModelTable

IsDrawable(model) == ModelTable[model].drawable

GetTransformMatrix(model) == ModelTable[model].transformMatrix

GetSubMeshCount(model) == Len(ModelTable[model].subMeshes)

\* i counts from 0 as in the source.
GetSubMesh(model, i) == ModelTable[model].subMeshes[i + 1]

GetMaterial(model, matIndex) == ModelTable[model].materials[matIndex + 1]

\* NzDrawable objects by address.
Drawables == {91}

\* Cameras by address: the near plane of the camera's frustum.
CameraTable ==
    1 :> [nearPlane |-> [normal |-> Vec(0, 0, -1), distance |-> 1]] @@
    2 :> [nearPlane |-> [normal |-> Vec(1, 0, 0),  distance |-> 0]]

Cameras == DOMAIN CameraTable

GetNearPlane(camera) == CameraTable[camera].nearPlane

\* NzLight objects by address.
Lights == {101, 102, 103}

(***************************************************************************)
(* Key comparators of the opaque grouping structure                        *)
(***************************************************************************)
\* The comparator without its final tie-break on the mesh address.
StaticMeshComparatorNoIdentity(subMesh1, subMesh2) ==
    GetBuffer(GetVertexBuffer(subMesh1)) < GetBuffer(GetVertexBuffer(subMesh2))

\* NzForwardRenderQueue::StaticMeshComparator::operator().  iBuffer2 is read
\* from subMesh1, as the source does.
StaticMeshComparator(subMesh1, subMesh2) ==
    LET iBuffer1 == GetIndexBuffer(subMesh1)
        buffer1  == IF iBuffer1 # NullPtr THEN GetBuffer(iBuffer1) ELSE NullPtr
        iBuffer2 == GetIndexBuffer(subMesh1)
        buffer2  == IF iBuffer2 # NullPtr THEN GetBuffer(iBuffer2) ELSE NullPtr
    IN  IF buffer1 = buffer2
        THEN LET vbuffer1 == GetBuffer(GetVertexBuffer(subMesh1))
                 vbuffer2 == GetBuffer(GetVertexBuffer(subMesh2))
             IN  IF vbuffer1 = vbuffer2
                 THEN subMesh1 < subMesh2
                 ELSE vbuffer1 < vbuffer2
        ELSE buffer1 < buffer2

\* The comparator without its final comparison of the two addresses.
MaterialComparatorNoIdentity(mat1, mat2) ==
    LET shader1 == GetCustomShader(mat1)
        shader2 == GetCustomShader(mat2)
    IN  IF shader1 # NullPtr
        THEN IF shader2 # NullPtr
             THEN IF shader1 # shader2 THEN shader1 < shader2 ELSE FALSE
             ELSE TRUE
        ELSE IF shader2 # NullPtr
             THEN FALSE
             ELSE LET shaderFlags1 == GetShaderFlags(mat1)
                      shaderFlags2 == GetShaderFlags(mat2)
                  IN  IF shaderFlags1 # shaderFlags2
                      THEN shaderFlags1 < shaderFlags2
                      ELSE FALSE

\* The comparator without its test of the two custom shaders.
MaterialComparatorShaderBlind(mat1, mat2) ==
    LET shader1 == GetCustomShader(mat1)
        shader2 == GetCustomShader(mat2)
    IN  IF shader1 # NullPtr
        THEN IF shader2 # NullPtr THEN mat1 < mat2 ELSE TRUE
        ELSE IF shader2 # NullPtr
             THEN FALSE
             ELSE LET shaderFlags1 == GetShaderFlags(mat1)
                      shaderFlags2 == GetShaderFlags(mat2)
                  IN  IF shaderFlags1 # shaderFlags2
                      THEN shaderFlags1 < shaderFlags2
                      ELSE mat1 < mat2

\* NzForwardRenderQueue::MaterialComparator::operator().
MaterialComparator(mat1, mat2) ==
    LET shader1 == GetCustomShader(mat1)
        shader2 == GetCustomShader(mat2)
    IN  IF shader1 # NullPtr
        THEN IF shader2 # NullPtr
             THEN IF shader1 # shader2 THEN shader1 < shader2 ELSE mat1 < mat2
             ELSE TRUE
        ELSE IF shader2 # NullPtr
             THEN FALSE
             ELSE LET shaderFlags1 == GetShaderFlags(mat1)
                      shaderFlags2 == GetShaderFlags(mat2)
                  IN  IF shaderFlags1 # shaderFlags2
                      THEN shaderFlags1 < shaderFlags2
                      ELSE mat1 < mat2

(***************************************************************************)
(* std::map as a sequence of [key, value] entries kept in comparator order *)
(***************************************************************************)
Min(S) == CHOOSE x \in S : \A y \in S : x <= y

InsertAt(s, i, e) == SubSeq(s, 1, i - 1) \o <<e>> \o SubSeq(s, i, Len(s))

\* The key comparator of a map: of visibleModels ("Material") or of the map
\* it holds for each material ("StaticMesh").
KeyLess(comp, k1, k2) ==
    IF comp = "Material"
    THEN MaterialComparator(k1, k2)
    ELSE StaticMeshComparator(k1, k2)

\* Position of the first entry whose key is not less than k (Len + 1: none).
LowerBound(m, k, comp) ==
    LET S == {i \in 1..Len(m) : ~KeyLess(comp, m[i].key, k)}
    IN  IF S = {} THEN Len(m) + 1 ELSE Min(S)

\* Whether operator[] finds an entry equivalent to k.
MapHas(m, k, comp) ==
    LET i == LowerBound(m, k, comp)
    IN  i <= Len(m) /\ ~KeyLess(comp, k, m[i].key)

\* The map after operator[](k): an entry with value `fresh` is inserted at
\* its ordered place when no entry is equivalent to k.
MapTouch(m, k, fresh, comp) ==
    IF MapHas(m, k, comp)
    THEN m
    ELSE InsertAt(m, LowerBound(m, k, comp), [key |-> k, value |-> fresh])

\* visibleModels[material].second[staticMesh].push_back(transformMatrix)
BucketPushBack(models, material, staticMesh, transformMatrix) ==
    LET outer  == MapTouch(models, material, <<>>, "Material")
        i      == LowerBound(outer, material, "Material")
        inner  == MapTouch(outer[i].value, staticMesh, <<>>, "StaticMesh")
        j      == LowerBound(inner, staticMesh, "StaticMesh")
        inner2 == [inner EXCEPT ![j].value = Append(@, transformMatrix)]
    IN  [outer EXCEPT ![i].value = inner2]

(***************************************************************************)
(* State                                                                   *)
(***************************************************************************)
VARIABLES
    \* The seven containers of NzForwardRenderQueue.
    directionnalLights,         \* sequence of light addresses
    visibleLights,              \* sequence of light addresses
    otherDrawables,             \* sequence of drawable addresses
    visibleModels,              \* map material -> (map static mesh -> transforms)
    visibleTransparentsModels,  \* sequence of <<index, isStatic>>, index from 0
    transparentStaticModels,    \* sequence of [material, mesh, transformMatrix]
    transparentSkeletalModels,  \* sequence of [material, mesh, transformMatrix]
    \* The NzLight objects of the scene, by address.
    lights,
    \* The uniforms of the shader programs, by program address and location.
    programs,
    \* History: the static submeshes handed to AddModel since the last Clear.
    submitted,
    \* History: the last operation, its argument, its result (of Sort: whether
    \* the operation before it was a Sort with the same camera; of Clear: the
    \* argument is the number of elements the queue held; of GetBoundingVolume:
    \* the volume returned, whether the call went through UpdateBoundingVolume
    \* and whether the operation before it was a GetBoundingVolume too).
    op

vars ==
    <<directionnalLights, visibleLights, otherDrawables, visibleModels,
      visibleTransparentsModels, transparentStaticModels,
      transparentSkeletalModels, lights, programs, submitted, op>>

\* The queue as one value.
Queue ==
    [directionnalLights        |-> directionnalLights,
     visibleLights             |-> visibleLights,
     otherDrawables            |-> otherDrawables,
     visibleModels             |-> visibleModels,
     visibleTransparentsModels |-> visibleTransparentsModels,
     transparentStaticModels   |-> transparentStaticModels,
     transparentSkeletalModels |-> transparentSkeletalModels]

\* A freshly constructed queue: every container default-constructed.
EmptyQueue ==
    [directionnalLights        |-> <<>>,
     visibleLights             |-> <<>>,
     otherDrawables            |-> <<>>,
     visibleModels             |-> <<>>,
     visibleTransparentsModels |-> <<>>,
     transparentStaticModels   |-> <<>>,
     transparentSkeletalModels |-> <<>>]

RECURSIVE SumLen(_)
SumLen(s) == IF s = <<>> THEN 0 ELSE Len(Head(s).value) + SumLen(Tail(s))

RECURSIVE TransformCount(_)
TransformCount(m) ==
    IF m = <<>> THEN 0 ELSE SumLen(Head(m).value) + TransformCount(Tail(m))

\* Number of elements the queue holds (the index list counts with its stores).
QueueSize(q) ==
    Len(q.directionnalLights) + Len(q.visibleLights) + Len(q.otherDrawables)
    + TransformCount(q.visibleModels) + Len(q.transparentStaticModels)
    + Len(q.transparentSkeletalModels)

(***************************************************************************)
(* Math services the light consumes: boxes, bounding volumes, frustums     *)
(***************************************************************************)
MinOf(a, b) == IF a <= b THEN a ELSE b

MaxOf(a, b) == IF a >= b THEN a ELSE b

VecAdd(a, b) == Vec(a[1] + b[1], a[2] + b[2], a[3] + b[3])

VecSub(a, b) == Vec(a[1] - b[1], a[2] - b[2], a[3] - b[3])

VecScale(a, k) == Vec(a[1] * k, a[2] * k, a[3] * k)

VecMin(a, b) == Vec(MinOf(a[1], b[1]), MinOf(a[2], b[2]), MinOf(a[3], b[3]))

VecMax(a, b) == Vec(MaxOf(a[1], b[1]), MaxOf(a[2], b[2]), MaxOf(a[3], b[3]))

\* NzVector3f::Forward(), Left(), Up().
Forward == Vec(0, 0, -1)

Left == Vec(-1, 0, 0)

Up == Vec(0, 1, 0)

\* An axis-aligned box by its two extreme corners.
Box(lo, hi) == [min |-> VecMin(lo, hi), max |-> VecMax(lo, hi)]

ZeroBox == Box(VecZero, VecZero)

BoxExtendTo(box, point) ==
    [min |-> VecMin(box.min, point), max |-> VecMax(box.max, point)]

\* The rotations of the model: none, and half a turn about the up axis.
Rotations == {"Identity", "Yaw180"}

Rotate(rot, v) == IF rot = "Yaw180" THEN Vec(0 - v[1], v[2], 0 - v[3]) ELSE v

\* NzMatrix4f::Translate(position) and NzMatrix4f::Transform(position, rotation).
Translate(position) == [position |-> position, rotation |-> "Identity"]

Transform(position, rotation) == [position |-> position, rotation |-> rotation]

\* NzBoundingVolumef: an extend, the local box, the box placed in the world.
NullVolume == [extend |-> "Null", obb |-> ZeroBox, aabb |-> ZeroBox]

VolumeMakeNull(volume) == NullVolume

VolumeMakeInfinite(volume) == [volume EXCEPT !.extend = "Infinite"]

VolumeIsNull(volume) == volume.extend = "Null"

VolumeSet(volume, box) == [volume EXCEPT !.extend = "Finite", !.obb = box]

\* NzBoundingVolumef::Update(matrix): the world box of the local box.
VolumeUpdate(volume, matrix) ==
    [volume EXCEPT !.aabb =
        Box(VecAdd(Rotate(matrix.rotation, volume.obb.min), matrix.position),
            VecAdd(Rotate(matrix.rotation, volume.obb.max), matrix.position))]

\* The angles of the model, in degrees, and their tangents.
OuterAngles == {0, DefaultOuterAngle}

Tan(degrees) == IF degrees = 45 THEN 1 ELSE 0

Radii == {2, DefaultRadius}

\* The values the other setters of a light are called with.
AmbientFactors == {0, DefaultAmbientFactor}

Attenuations == {50, DefaultAttenuation}

Colors == {"White", "Red"}

DiffuseFactors == {50, DefaultDiffuseFactor}

InnerAngles == {DefaultInnerAngle, 30}

Positions == {VecZero, Vec(0, 0, 20)}

\* Frustums by address: the region each one holds, as a box.
FrustumTable ==
    1 :> Box(Vec(-4, -4, -10), Vec(4, 4, -1)) @@
    2 :> Box(Vec(-9, -9, 12), Vec(9, 9, 30))

Frustums == DOMAIN FrustumTable

Clamp(x, lo, hi) == MaxOf(lo, MinOf(x, hi))

\* frustum.Contains(NzSpheref(center, radius)): the sphere reaches the region.
ContainsSphere(frustum, center, radius) ==
    LET region  == FrustumTable[frustum]
        nearest == Vec(Clamp(center[1], region.min[1], region.max[1]),
                       Clamp(center[2], region.min[2], region.max[2]),
                       Clamp(center[3], region.min[3], region.max[3]))
        d       == VecSub(center, nearest)
    IN  Dot(d, d) <= radius * radius

\* frustum.Contains(boundingVolume): by extend, then the world box.
ContainsVolume(frustum, volume) ==
    LET region == FrustumTable[frustum]
    IN  CASE volume.extend = "Infinite" -> TRUE
          [] volume.extend = "Null"     -> FALSE
          [] OTHER ->
                \A k \in 1..3 : /\ volume.aabb.min[k] <= region.max[k]
                                /\ volume.aabb.max[k] >= region.min[k]

(***************************************************************************)
(* NzLight                                                                 *)
(***************************************************************************)
\* NzLight::NzLight(type) on a node at the origin.  The derived position and
\* rotation are read only after UpdateDerived has written them.
NewLight(type) ==
    [m_type                  |-> type,
     m_color                 |-> "White",
     m_boundingVolume        |-> NullVolume,
     m_boundingVolumeUpdated |-> FALSE,
     m_ambientFactor         |-> IF type = nzLightType_Directional
                                 THEN DefaultAmbientFactor ELSE 0,
     m_attenuation           |-> DefaultAttenuation,
     m_diffuseFactor         |-> DefaultDiffuseFactor,
     m_innerAngle            |-> DefaultInnerAngle,
     m_outerAngle            |-> DefaultOuterAngle,
     m_radius                |-> DefaultRadius,
     m_position              |-> VecZero,
     m_rotation              |-> "Identity",
     m_derivedPosition       |-> VecZero,
     m_derivedRotation       |-> "Identity",
     m_derivedUpdated        |-> FALSE]

\* NzNode::UpdateDerived of a node without parent.
UpdateDerived(light) ==
    [light EXCEPT !.m_derivedPosition = light.m_position,
                  !.m_derivedRotation = light.m_rotation,
                  !.m_derivedUpdated  = TRUE]

EnsureDerived(light) ==
    IF ~light.m_derivedUpdated THEN UpdateDerived(light) ELSE light

\* NzNode::Invalidate.
NodeInvalidate(light) == [light EXCEPT !.m_derivedUpdated = FALSE]

\* The local box of a spot light: the apex and the four far corners.
SpotBox(m_radius, m_outerAngle) ==
    LET base    == VecScale(Forward, m_radius)
        radius  == m_radius * Tan(m_outerAngle)
        lExtend == VecScale(Left, radius)
        uExtend == VecScale(Up, radius)
        b0      == Box(VecZero, VecZero)
        b1      == BoxExtendTo(b0, VecAdd(VecAdd(base, lExtend), uExtend))
        b2      == BoxExtendTo(b1, VecSub(VecAdd(base, lExtend), uExtend))
        b3      == BoxExtendTo(b2, VecAdd(VecSub(base, lExtend), uExtend))
    IN  BoxExtendTo(b3, VecSub(VecSub(base, lExtend), uExtend))

\* First half of NzLight::UpdateBoundingVolume: the local shape, rebuilt only
\* when the volume is null.  done: the Directional case has returned.
BuildShape(light) ==
    IF VolumeIsNull(light.m_boundingVolume)
    THEN CASE light.m_type = nzLightType_Directional ->
                [light |-> [light EXCEPT
                               !.m_boundingVolume = VolumeMakeInfinite(@),
                               !.m_boundingVolumeUpdated = TRUE],
                 done  |-> TRUE]
           [] light.m_type = nzLightType_Point ->
                [light |-> [light EXCEPT !.m_boundingVolume =
                               VolumeSet(@, Box(Vec(0 - light.m_radius,
                                                    0 - light.m_radius,
                                                    0 - light.m_radius),
                                                Vec(light.m_radius,
                                                    light.m_radius,
                                                    light.m_radius)))],
                 done  |-> FALSE]
           [] light.m_type = nzLightType_Spot ->
                [light |-> [light EXCEPT !.m_boundingVolume =
                               VolumeSet(@, SpotBox(light.m_radius,
                                                    light.m_outerAngle))],
                 done  |-> FALSE]
           [] OTHER -> [light |-> light, done |-> FALSE]
    ELSE [light |-> light, done |-> FALSE]

\* Second half: the world placement, by the type.
PlaceShape(light) ==
    CASE light.m_type = nzLightType_Point ->
            LET l == EnsureDerived(light)
            IN  [l EXCEPT !.m_boundingVolume =
                    VolumeUpdate(@, Translate(l.m_derivedPosition))]
      [] light.m_type = nzLightType_Spot ->
            LET l == EnsureDerived(light)
            IN  [l EXCEPT !.m_boundingVolume =
                    VolumeUpdate(@, Transform(l.m_derivedPosition,
                                              l.m_derivedRotation))]
      [] OTHER -> light

\* UpdateBoundingVolume without its last assignment.
UpdateBoundingVolumeLeavesFlag(light) ==
    LET built == BuildShape(light)
    IN  IF built.done THEN built.light ELSE PlaceShape(built.light)

\* NzLight::UpdateBoundingVolume.
UpdateBoundingVolume(light) ==
    LET built == BuildShape(light)
    IN  IF built.done
        THEN built.light
        ELSE [PlaceShape(built.light) EXCEPT !.m_boundingVolumeUpdated = TRUE]

\* NzLight::GetBoundingVolume: the light after the call; the volume returned
\* is its m_boundingVolume.
GetBoundingVolume(light) ==
    IF ~light.m_boundingVolumeUpdated THEN UpdateBoundingVolume(light) ELSE light

\* The default of the switch falling into the Spot case.
FrustumCullDefaultAsSpot(light, frustum) ==
    LET l == GetBoundingVolume(light)
    IN  [light |-> l, ret |-> ContainsVolume(frustum, l.m_boundingVolume)]

\* The default of FrustumCull's switch: the error is logged, false returned.
FrustumCullDefault(light, frustum) == [light |-> light, ret |-> FALSE]

\* The Directional case testing the bounding volume as the Spot case does.
FrustumCullDirectionalByVolume(light, frustum) ==
    LET l == GetBoundingVolume(light)
    IN  [light |-> l, ret |-> ContainsVolume(frustum, l.m_boundingVolume)]

\* The Directional case of FrustumCull: always visible.
FrustumCullDirectional(light, frustum) == [light |-> light, ret |-> TRUE]

\* The Point case reading the derived position without refreshing it.
FrustumCullPointNoRefresh(light, frustum) ==
    [light |-> light,
     ret   |-> ContainsSphere(frustum, light.m_derivedPosition, light.m_radius)]

\* The Point case of FrustumCull: a sphere test at the derived position.
FrustumCullPoint(light, frustum) ==
    LET l == EnsureDerived(light)
    IN  [light |-> l,
         ret   |-> ContainsSphere(frustum, l.m_derivedPosition, l.m_radius)]

\* The Spot case of FrustumCull: the bounding volume, brought up to date.
FrustumCullSpot(light, frustum) ==
    LET l == GetBoundingVolume(light)
    IN  [light |-> l, ret |-> ContainsVolume(frustum, l.m_boundingVolume)]

\* NzLight::FrustumCull: the light after the call and the value returned.
FrustumCull(light, frustum) ==
    CASE light.m_type = nzLightType_Directional ->
            FrustumCullDirectional(light, frustum)
      [] light.m_type = nzLightType_Point ->
            FrustumCullPoint(light, frustum)
      [] light.m_type = nzLightType_Spot ->
            FrustumCullSpot(light, frustum)
      [] OTHER -> FrustumCullDefault(light, frustum)

\* NzLight::SetAmbientFactor.
SetAmbientFactor(light, factor) == [light EXCEPT !.m_ambientFactor = factor]

\* NzLight::SetAttenuation.
SetAttenuation(light, attenuation) == [light EXCEPT !.m_attenuation = attenuation]

\* NzLight::SetColor.
SetColor(light, color) == [light EXCEPT !.m_color = color]

\* NzLight::SetDiffuseFactor.
SetDiffuseFactor(light, factor) == [light EXCEPT !.m_diffuseFactor = factor]

\* SetInnerAngle clearing the volume as SetOuterAngle does.
SetInnerAngleClearsVolume(light, innerAngle) ==
    [light EXCEPT !.m_innerAngle = innerAngle,
                  !.m_boundingVolume = VolumeMakeNull(@),
                  !.m_boundingVolumeUpdated = FALSE]

\* NzLight::SetInnerAngle.
SetInnerAngle(light, innerAngle) == [light EXCEPT !.m_innerAngle = innerAngle]

\* NzLight::SetLightType.
SetLightType(light, type) == [light EXCEPT !.m_type = type]

\* NzLight::SetOuterAngle.
SetOuterAngle(light, outerAngle) ==
    [light EXCEPT !.m_outerAngle = outerAngle,
                  !.m_boundingVolume = VolumeMakeNull(@),
                  !.m_boundingVolumeUpdated = FALSE]

\* SetRadius without MakeNull: the shape built from the old radius stays.
SetRadiusKeepsShape(light, radius) ==
    [light EXCEPT !.m_radius = radius, !.m_boundingVolumeUpdated = FALSE]

\* NzLight::SetRadius.
SetRadius(light, radius) ==
    [light EXCEPT !.m_radius = radius,
                  !.m_boundingVolume = VolumeMakeNull(@),
                  !.m_boundingVolumeUpdated = FALSE]

\* Invalidate clearing the shape as the setters of the shape do.
InvalidateDropsShape(light) ==
    [NodeInvalidate(light) EXCEPT !.m_boundingVolume = VolumeMakeNull(@),
                                  !.m_boundingVolumeUpdated = FALSE]

\* NzLight::Invalidate.
Invalidate(light) == [NodeInvalidate(light) EXCEPT !.m_boundingVolumeUpdated = FALSE]

\* NzNode::SetPosition and NzNode::SetRotation: the local transform changes
\* and the node is invalidated.
SetPosition(light, position) == Invalidate([light EXCEPT !.m_position = position])

SetRotation(light, rotation) == Invalidate([light EXCEPT !.m_rotation = rotation])

(***************************************************************************)
(* Shader programs and the upload of a light to a light unit               *)
(***************************************************************************)
LightUnits == 0..MaxLightUnit

\* The members of the GLSL struct Light that Enable writes, in declaration
\* order, and the GLSL type of each.
LightFields ==
    <<"type", "color", "factors", "parameters1", "parameters2", "parameters3">>

LightFieldNames == {LightFields[i] : i \in 1..Len(LightFields)}

FieldIndex(field) == CHOOSE i \in 1..Len(LightFields) : LightFields[i] = field

FieldKind(field) ==
    CASE field = "type" -> "int"
      [] field \in {"factors", "parameters3"} -> "vec2"
      [] OTHER -> "vec4"

\* The name "Lights[k].field" of a uniform.
UniformName(k, field) == <<k, field>>

\* Shader programs by address.  201 declares Lights[MaxLightUnit + 1] and has
\* its locations array-contiguous; 202 declares as many but its locations
\* leave a gap before slot 2; 203 declares Lights[1].
Programs == {201, 202, 203}

ArraySize(program) == IF program = 203 THEN 1 ELSE MaxLightUnit + 1

LocationOf(program, k, field) ==
    CASE program = 201 -> 10 + Len(LightFields) * k + FieldIndex(field) - 1
      [] program = 202 -> 10 + Len(LightFields) * k + FieldIndex(field) - 1
                             + (IF k >= 2 THEN 2 ELSE 0)
      [] program = 203 -> 4 + FieldIndex(field) - 1

\* NzShaderProgram::GetUniformLocation: -1 for a name the program has not.
GetUniformLocation(program, name) ==
    IF name[1] < ArraySize(program)
    THEN LocationOf(program, name[1], name[2])
    ELSE -1

UniformNames(program) ==
    {UniformName(k, field) :
        k \in 0..ArraySize(program) - 1, field \in LightFieldNames}

\* The uniforms of a linked program, by location: GLSL type and value.
FreshUniforms(program) ==
    LET names   == UniformNames(program)
        at(loc) == CHOOSE n \in names : GetUniformLocation(program, n) = loc
    IN  [loc \in {GetUniformLocation(program, n) : n \in names} |->
            [kind  |-> FieldKind(at(loc)[2]),
             value |-> IF FieldKind(at(loc)[2]) = "int" THEN 0
                       ELSE IF FieldKind(at(loc)[2]) = "vec2" THEN <<0, 0>>
                       ELSE <<0, 0, 0, 0>>]]

\* One call of SendInteger, SendColor or SendVector.
Write(field, location, kind, value) ==
    [field |-> field, location |-> location, kind |-> kind, value |-> value]

\* The uniforms after a call: a location the program has not, or one of
\* another GLSL type, is left alone.
Send(uniforms, w) ==
    IF w.location \in DOMAIN uniforms /\ uniforms[w.location].kind = w.kind
    THEN [uniforms EXCEPT ![w.location].value = w.value]
    ELSE uniforms

RECURSIVE SendAll(_, _)
SendAll(uniforms, writes) ==
    IF writes = <<>>
    THEN uniforms
    ELSE SendAll(Send(uniforms, Head(writes)), Tail(writes))

\* The vec4 of a colour, and the cosines of the angles of the model (in
\* thousandths); the fourth component of a vec4 is in hundredths.
ColorVec(color) ==
    IF color = "White" THEN <<255, 255, 255, 255>> ELSE <<255, 0, 0, 255>>

Cos(degrees) ==
    CASE degrees = 0  -> 1000
      [] degrees = 15 -> 966
      [] degrees = 30 -> 866
      [] degrees = 45 -> 707

Vec4(v, w) == <<v[1], v[2], v[3], w>>

\* The offset that ignores the light unit.
SlotOffsetOneStride(typeLocation, type2Location, lightUnit) ==
    type2Location - typeLocation

\* The offset of Enable: lightUnit * (type2Location - typeLocation), an int.
\* The locations and units of the model keep the product far inside 32 bits,
\* where the arithmetic of the source is exact.
SlotOffset(typeLocation, type2Location, lightUnit) ==
    lightUnit * (type2Location - typeLocation)

\* The six locations Enable writes to, by field.
EnableLocations(program, lightUnit) ==
    LET offset ==
            IF lightUnit > 0
            THEN SlotOffset(GetUniformLocation(program, UniformName(0, "type")),
                            GetUniformLocation(program, UniformName(1, "type")),
                            lightUnit)
            ELSE 0
    IN  [field \in LightFieldNames |->
            GetUniformLocation(program, UniformName(0, field)) + offset]

\* NzLight::Enable: the light and the uniforms after the call, and the calls
\* of Send* it made, in order.
Enable(light, program, uniforms, lightUnit) ==
    LET loc    == EnableLocations(program, lightUnit)
        l      == EnsureDerived(light)
        common == <<Write("type", loc["type"], "int", light.m_type),
                    Write("color", loc["color"], "vec4", ColorVec(light.m_color)),
                    Write("factors", loc["factors"], "vec2",
                          <<light.m_ambientFactor, light.m_diffuseFactor>>)>>
        byType ==
            CASE light.m_type = nzLightType_Directional ->
                    <<Write("parameters1", loc["parameters1"], "vec4",
                            Vec4(Rotate(l.m_derivedRotation, Forward), 100))>>
              [] light.m_type = nzLightType_Point ->
                    <<Write("parameters1", loc["parameters1"], "vec4",
                            Vec4(l.m_derivedPosition, light.m_attenuation)),
                      Write("parameters2", loc["parameters2"], "vec4",
                            Vec4(VecZero, 100 \div light.m_radius))>>
              [] light.m_type = nzLightType_Spot ->
                    <<Write("parameters1", loc["parameters1"], "vec4",
                            Vec4(l.m_derivedPosition, light.m_attenuation)),
                      Write("parameters2", loc["parameters2"], "vec4",
                            Vec4(Rotate(l.m_derivedRotation, Forward),
                                 100 \div light.m_radius)),
                      Write("parameters3", loc["parameters3"], "vec2",
                            <<Cos(light.m_innerAngle), Cos(light.m_outerAngle)>>)>>
              [] OTHER -> <<>>
    IN  [light    |-> l,
         uniforms |-> SendAll(uniforms, common \o byType),
         writes   |-> common \o byType]

\* NzLight::Disable: the uniforms after the call and the call it made.
Disable(program, uniforms, lightUnit) ==
    LET w == Write("type",
                   GetUniformLocation(program, UniformName(lightUnit, "type")),
                   "int", -1)
    IN  [uniforms |-> Send(uniforms, w), writes |-> <<w>>]

(***************************************************************************)
(* NzForwardRenderQueue: the operations on a queue value                   *)
(***************************************************************************)
\* AddDrawable without its null test.
AddDrawableUnchecked(q, drawable) ==
    [q EXCEPT !.otherDrawables = Append(@, drawable)]

\* NzForwardRenderQueue::AddDrawable.
AddDrawableQ(q, drawable) ==
    IF NAZARA_GRAPHICS_SAFE = 1 /\ drawable = NullPtr
    THEN q
    ELSE [q EXCEPT !.otherDrawables = Append(@, drawable)]

\* The switch of AddLight with the Spot case sent to directionnalLights.
ClassifyLightSpotAsDirectional(q, light, type) ==
    CASE type = nzLightType_Directional \/ type = nzLightType_Spot ->
            [q EXCEPT !.directionnalLights = Append(@, light)]
      [] type = nzLightType_Point ->
            [q EXCEPT !.visibleLights = Append(@, light)]
      [] OTHER -> q

\* The switch of AddLight with the Point case sent to directionnalLights.
ClassifyLightPointAsDirectional(q, light, type) ==
    CASE type = nzLightType_Directional \/ type = nzLightType_Point ->
            [q EXCEPT !.directionnalLights = Append(@, light)]
      [] type = nzLightType_Spot ->
            [q EXCEPT !.visibleLights = Append(@, light)]
      [] OTHER -> q

\* The switch of AddLight on the light's type; another value is logged (debug
\* builds) or ignored.
ClassifyLight(q, light, type) ==
    CASE type = nzLightType_Directional ->
            [q EXCEPT !.directionnalLights = Append(@, light)]
      [] type = nzLightType_Point \/ type = nzLightType_Spot ->
            [q EXCEPT !.visibleLights = Append(@, light)]
      [] OTHER -> q

\* NzForwardRenderQueue::AddLight; ls: the lights of the scene.
AddLightQ(q, ls, light) ==
    IF NAZARA_GRAPHICS_SAFE = 1 /\ light = NullPtr
    THEN q
    ELSE ClassifyLight(q, light, ls[light].m_type)

\* The Static case with the opaque branch taken whatever the material.
StaticCaseAlwaysOpaque(q, material, staticMesh, transformMatrix) ==
    [q EXCEPT !.visibleModels =
        BucketPushBack(@, material, staticMesh, transformMatrix)]

\* The Static case of AddModel.
StaticCase(q, material, staticMesh, transformMatrix) ==
    IF IsAlphaBlendingEnabled(material)
    THEN LET index == Len(q.transparentStaticModels)
         IN  [q EXCEPT
                !.transparentStaticModels =
                    Append(@, [material |-> material, mesh |-> staticMesh,
                               transformMatrix |-> transformMatrix]),
                !.visibleTransparentsModels = Append(@, <<index, TRUE>>)]
    ELSE [q EXCEPT !.visibleModels =
            BucketPushBack(@, material, staticMesh, transformMatrix)]

\* The Skeletal case of AddModel falling into the Static case.
SkeletalCaseFallThrough(q, material, subMesh, transformMatrix) ==
    StaticCase(q, material, subMesh.mesh, transformMatrix)

\* The Skeletal case of AddModel: an error is logged, nothing is queued.
SkeletalCase(q, material, subMesh, transformMatrix) == q

\* One turn of AddModel's loop, for submesh i (from 0).
SubMeshStep(q, model, i) ==
    LET subMesh  == GetSubMesh(model, i)
        material == GetMaterial(model, subMesh.materialIndex)
    IN  CASE subMesh.animationType = "Skeletal" ->
                SkeletalCase(q, material, subMesh, GetTransformMatrix(model))
          [] subMesh.animationType = "Static" ->
                StaticCase(q, material, subMesh.mesh, GetTransformMatrix(model))

RECURSIVE AddSubMeshes(_, _, _)
AddSubMeshes(q, model, i) ==
    IF i < GetSubMeshCount(model)
    THEN AddSubMeshes(SubMeshStep(q, model, i), model, i + 1)
    ELSE q

\* NzForwardRenderQueue::AddModel.
AddModelQ(q, model) ==
    IF NAZARA_GRAPHICS_SAFE = 1 /\ model = NullPtr
    THEN q
    ELSE IF NAZARA_GRAPHICS_SAFE = 1 /\ ~IsDrawable(model)
         THEN q
         ELSE AddSubMeshes(q, model, 0)

\* Clear that forgets the transparent records.
ClearKeepsTransparents(q) ==
    [EmptyQueue EXCEPT !.transparentStaticModels = q.transparentStaticModels]

\* Clear without the clear() of the index list.
ClearKeepsIndexList(q) ==
    [q EXCEPT !.directionnalLights        = <<>>,
              !.otherDrawables            = <<>>,
              !.visibleLights             = <<>>,
              !.visibleModels             = <<>>,
              !.transparentSkeletalModels = <<>>,
              !.transparentStaticModels   = <<>>]

\* NzForwardRenderQueue::Clear.
ClearQ(q) ==
    [q EXCEPT !.directionnalLights        = <<>>,
              !.otherDrawables            = <<>>,
              !.visibleLights             = <<>>,
              !.visibleModels             = <<>>,
              !.visibleTransparentsModels = <<>>,
              !.transparentSkeletalModels = <<>>,
              !.transparentStaticModels   = <<>>]

(***************************************************************************)
(* Sort                                                                    *)
(***************************************************************************)
\* The comparator with <= for <.
TransparentModelComparatorNonStrict(q, nearPlane, index1, index2) ==
    PlaneDistance(nearPlane,
        GetTranslation(q.transparentStaticModels[index1[1] + 1].transformMatrix))
    <= PlaneDistance(nearPlane,
        GetTranslation(q.transparentStaticModels[index2[1] + 1].transformMatrix))

\* The comparator with its second matrix read from index1.
TransparentModelComparatorSelf(q, nearPlane, index1, index2) ==
    PlaneDistance(nearPlane,
        GetTranslation(q.transparentStaticModels[index1[1] + 1].transformMatrix))
    < PlaneDistance(nearPlane,
        GetTranslation(q.transparentStaticModels[index1[1] + 1].transformMatrix))

\* The comparator with > for <.
TransparentModelComparatorReversed(q, nearPlane, index1, index2) ==
    PlaneDistance(nearPlane,
        GetTranslation(q.transparentStaticModels[index1[1] + 1].transformMatrix))
    > PlaneDistance(nearPlane,
        GetTranslation(q.transparentStaticModels[index2[1] + 1].transformMatrix))

\* TransparentModelComparator::operator() of Sort.  Both stores are chosen by
\* index1.second, as the source does.
TransparentModelComparator(q, nearPlane, index1, index2) ==
    LET matrix1 == IF index1[2]
                   THEN q.transparentStaticModels[index1[1] + 1].transformMatrix
                   ELSE q.transparentSkeletalModels[index1[1] + 1].transformMatrix
        matrix2 == IF index1[2]
                   THEN q.transparentStaticModels[index2[1] + 1].transformMatrix
                   ELSE q.transparentSkeletalModels[index2[1] + 1].transformMatrix
    IN  PlaneDistance(nearPlane, GetTranslation(matrix1))
        < PlaneDistance(nearPlane, GetTranslation(matrix2))

Range(s) == {s[i] : i \in 1..Len(s)}

\* Whether less (a Boolean function of pairs) is a strict weak ordering of
\* the elements of s, which std::sort requires.
IsStrictWeakOrdering(s, less) ==
    LET E == Range(s)
    IN  /\ \A a \in E : ~less[a, a]
        /\ \A a, b, c \in E : less[a, b] /\ less[b, c] => less[a, c]
        /\ \A a, b, c \in E :
              (~less[a, b] /\ ~less[b, a] /\ ~less[b, c] /\ ~less[c, b])
                  => (~less[a, c] /\ ~less[c, a])

\* The arrangements of s without repetition.
Arrangements(s) ==
    LET n == Len(s)
        P == {f \in [1..n -> 1..n] : \A i, j \in 1..n : i # j => f[i] # f[j]}
    IN  {[i \in 1..n |-> s[f[i]]] : f \in P}

\* std::sort(first, last, comp): any arrangement of the range in which no
\* element is less than one before it (the order of equivalent elements is
\* unspecified).  With a comparator that is no strict weak ordering the
\* behaviour is undefined: the range may end holding any of its values.
StdSort(s, less) ==
    IF IsStrictWeakOrdering(s, less)
    THEN {t \in Arrangements(s) :
            \A i, j \in 1..Len(t) : i < j => ~less[t[j], t[i]]}
    ELSE [1..Len(s) -> Range(s)]

\* Sort ordering the static store itself and leaving the index list alone.
SortQStores(q, camera) ==
    LET nearPlane  == GetNearPlane(camera)
        E          == Range(q.transparentStaticModels)
        comparator == [r1 \in E, r2 \in E |->
                         PlaneDistance(nearPlane, GetTranslation(r1.transformMatrix))
                         < PlaneDistance(nearPlane, GetTranslation(r2.transformMatrix))]
    IN  {[q EXCEPT !.transparentStaticModels = t] :
            t \in StdSort(q.transparentStaticModels, comparator)}

\* NzForwardRenderQueue::Sort: the queues it may leave.
SortQ(q, camera) ==
    LET nearPlane  == GetNearPlane(camera)
        E          == Range(q.visibleTransparentsModels)
        comparator == [index1 \in E, index2 \in E |->
                         TransparentModelComparator(q, nearPlane, index1, index2)]
    IN  {[q EXCEPT !.visibleTransparentsModels = t] :
            t \in StdSort(q.visibleTransparentsModels, comparator)}

(***************************************************************************)
(* The state machine                                                       *)
(***************************************************************************)
\* The static submeshes AddModel meets in a model it accepts, in order.
StaticSubmissions(model) ==
    IF model = NullPtr \/ ~IsDrawable(model)
    THEN <<>>
    ELSE LET all == [i \in 1..GetSubMeshCount(model) |->
                        [material        |-> GetMaterial(model,
                                                GetSubMesh(model, i - 1).materialIndex),
                         mesh            |-> GetSubMesh(model, i - 1).mesh,
                         animationType   |-> GetSubMesh(model, i - 1).animationType,
                         transformMatrix |-> GetTransformMatrix(model)]]
             isStatic(r) == r.animationType = "Static"
         IN  SelectSeq(all, isStatic)

\* The queue variables take the fields of q.
QueueBecomes(q) ==
    /\ directionnalLights' = q.directionnalLights
    /\ visibleLights' = q.visibleLights
    /\ otherDrawables' = q.otherDrawables
    /\ visibleModels' = q.visibleModels
    /\ visibleTransparentsModels' = q.visibleTransparentsModels
    /\ transparentStaticModels' = q.transparentStaticModels
    /\ transparentSkeletalModels' = q.transparentSkeletalModels

QueueUnchanged ==
    UNCHANGED <<directionnalLights, visibleLights, otherDrawables, visibleModels,
                visibleTransparentsModels, transparentStaticModels,
                transparentSkeletalModels>>

NoOp == [name |-> "None", arg |-> 0, ret |-> FALSE]

InitQueue ==
    /\ directionnalLights = <<>>
    /\ visibleLights = <<>>
    /\ otherDrawables = <<>>
    /\ visibleModels = <<>>
    /\ visibleTransparentsModels = <<>>
    /\ transparentStaticModels = <<>>
    /\ transparentSkeletalModels = <<>>
    /\ submitted = <<>>
    /\ op = NoOp

\* The uniforms of the programs of P, as linking leaves them (no program is
\* linked where no light is uploaded).
LinkedPrograms(P) == [program \in P |-> FreshUniforms(program)]

\* A scene of three lights, one of each type of the enumeration.
Init ==
    /\ InitQueue
    /\ programs = LinkedPrograms({})
    /\ lights = 101 :> NewLight(nzLightType_Directional)
             @@ 102 :> NewLight(nzLightType_Point)
             @@ 103 :> NewLight(nzLightType_Spot)

\* A scene of two lights, each constructed with some type value.
InitScene ==
    /\ InitQueue
    /\ programs = LinkedPrograms({})
    /\ lights \in [{101, 102} -> {NewLight(t) : t \in LightTypeValues}]

\* A scene of one light, constructed with some type value.
InitLight ==
    /\ InitQueue
    /\ programs = LinkedPrograms({})
    /\ lights \in [{101} -> {NewLight(t) : t \in LightTypeValues}]

AddDrawable(drawable) ==
    LET q == AddDrawableQ(Queue, drawable)
    IN  /\ QueueSize(q) <= MaxQueue
        /\ QueueBecomes(q)
        /\ op' = [name |-> "AddDrawable", arg |-> drawable, ret |-> FALSE]
        /\ UNCHANGED <<lights, programs, submitted>>

AddLight(light) ==
    LET q == AddLightQ(Queue, lights, light)
    IN  /\ QueueSize(q) <= MaxQueue
        /\ QueueBecomes(q)
        /\ op' = [name |-> "AddLight", arg |-> light, ret |-> FALSE]
        /\ UNCHANGED <<lights, programs, submitted>>

AddModel(model) ==
    LET q == AddModelQ(Queue, model)
    IN  /\ QueueSize(q) <= MaxQueue
        /\ QueueBecomes(q)
        /\ submitted' = submitted \o StaticSubmissions(model)
        /\ op' = [name |-> "AddModel", arg |-> model, ret |-> FALSE]
        /\ UNCHANGED <<lights, programs>>

\* AddModel of a drawable model made of one static submesh, of any material
\* and any mesh of the scene: one turn of the loop, through the Static case.
AddStaticSubMesh(material, staticMesh, transformMatrix) ==
    LET q == StaticCase(Queue, material, staticMesh, transformMatrix)
    IN  /\ QueueSize(q) <= MaxQueue
        /\ QueueBecomes(q)
        /\ submitted' = Append(submitted,
                               [material |-> material, mesh |-> staticMesh,
                                animationType |-> "Static",
                                transformMatrix |-> transformMatrix])
        /\ op' = [name |-> "AddStaticSubMesh", arg |-> <<material, staticMesh>>,
                  ret |-> FALSE]
        /\ UNCHANGED <<lights, programs>>

Clear ==
    /\ QueueBecomes(ClearQ(Queue))
    /\ submitted' = <<>>
    /\ op' = [name |-> "Clear", arg |-> QueueSize(Queue), ret |-> FALSE]
    /\ UNCHANGED <<lights, programs>>

Sort(camera) ==
    \E q \in SortQ(Queue, camera) :
        /\ QueueBecomes(q)
        /\ op' = [name |-> "Sort", arg |-> camera, ret |-> (op.name = "Sort" /\ op.arg = camera)]
        /\ UNCHANGED <<lights, programs, submitted>>

LightSetLightType(l, type) ==
    /\ lights' = [lights EXCEPT ![l] = SetLightType(@, type)]
    /\ op' = [name |-> "SetLightType", arg |-> l, ret |-> FALSE]
    /\ QueueUnchanged
    /\ UNCHANGED <<programs, submitted>>

LightSetRadius(l, radius) ==
    /\ lights' = [lights EXCEPT ![l] = SetRadius(@, radius)]
    /\ op' = [name |-> "SetRadius", arg |-> l, ret |-> FALSE]
    /\ QueueUnchanged
    /\ UNCHANGED <<programs, submitted>>

LightSetOuterAngle(l, outerAngle) ==
    /\ lights' = [lights EXCEPT ![l] = SetOuterAngle(@, outerAngle)]
    /\ op' = [name |-> "SetOuterAngle", arg |-> l, ret |-> FALSE]
    /\ QueueUnchanged
    /\ UNCHANGED <<programs, submitted>>

LightSetPosition(l, position) ==
    /\ lights' = [lights EXCEPT ![l] = SetPosition(@, position)]
    /\ op' = [name |-> "SetPosition", arg |-> l, ret |-> FALSE]
    /\ QueueUnchanged
    /\ UNCHANGED <<programs, submitted>>

LightSetRotation(l, rotation) ==
    /\ lights' = [lights EXCEPT ![l] = SetRotation(@, rotation)]
    /\ op' = [name |-> "SetRotation", arg |-> l, ret |-> FALSE]
    /\ QueueUnchanged
    /\ UNCHANGED <<programs, submitted>>

\* The setters of the shading parameters; the result recorded is whether the
\* bounding volume was marked valid when the call was made.
LightSetAmbientFactor(l, factor) ==
    /\ lights' = [lights EXCEPT ![l] = SetAmbientFactor(@, factor)]
    /\ op' = [name |-> "SetAmbientFactor", arg |-> l,
              ret |-> lights[l].m_boundingVolumeUpdated]
    /\ QueueUnchanged
    /\ UNCHANGED <<programs, submitted>>

LightSetAttenuation(l, attenuation) ==
    /\ lights' = [lights EXCEPT ![l] = SetAttenuation(@, attenuation)]
    /\ op' = [name |-> "SetAttenuation", arg |-> l,
              ret |-> lights[l].m_boundingVolumeUpdated]
    /\ QueueUnchanged
    /\ UNCHANGED <<programs, submitted>>

LightSetColor(l, color) ==
    /\ lights' = [lights EXCEPT ![l] = SetColor(@, color)]
    /\ op' = [name |-> "SetColor", arg |-> l,
              ret |-> lights[l].m_boundingVolumeUpdated]
    /\ QueueUnchanged
    /\ UNCHANGED <<programs, submitted>>

LightSetDiffuseFactor(l, factor) ==
    /\ lights' = [lights EXCEPT ![l] = SetDiffuseFactor(@, factor)]
    /\ op' = [name |-> "SetDiffuseFactor", arg |-> l,
              ret |-> lights[l].m_boundingVolumeUpdated]
    /\ QueueUnchanged
    /\ UNCHANGED <<programs, submitted>>

LightSetInnerAngle(l, innerAngle) ==
    /\ lights' = [lights EXCEPT ![l] = SetInnerAngle(@, innerAngle)]
    /\ op' = [name |-> "SetInnerAngle", arg |-> l,
              ret |-> lights[l].m_boundingVolumeUpdated]
    /\ QueueUnchanged
    /\ UNCHANGED <<programs, submitted>>

LightGetBoundingVolume(l) ==
    /\ lights' = [lights EXCEPT ![l] = GetBoundingVolume(@)]
    /\ op' = [name |-> "GetBoundingVolume", arg |-> l,
              ret |-> [volume     |-> GetBoundingVolume(lights[l]).m_boundingVolume,
                       recomputed |-> ~lights[l].m_boundingVolumeUpdated,
                       again      |-> op.name = "GetBoundingVolume"]]
    /\ QueueUnchanged
    /\ UNCHANGED <<programs, submitted>>

LightFrustumCull(l, frustum) ==
    LET r == FrustumCull(lights[l], frustum)
    IN  /\ lights' = [lights EXCEPT ![l] = r.light]
        /\ op' = [name |-> "FrustumCull", arg |-> <<l, frustum>>, ret |-> r.ret]
        /\ QueueUnchanged
        /\ UNCHANGED <<programs, submitted>>

\* The result recorded of Enable and Disable: the calls of Send* made.
LightEnable(l, program, lightUnit) ==
    LET r == Enable(lights[l], program, programs[program], lightUnit)
    IN  /\ lights' = [lights EXCEPT ![l] = r.light]
        /\ programs' = [programs EXCEPT ![program] = r.uniforms]
        /\ op' = [name |-> "Enable", arg |-> <<program, lightUnit, l>>,
                  ret |-> r.writes]
        /\ QueueUnchanged
        /\ UNCHANGED submitted

LightDisable(program, lightUnit) ==
    LET r == Disable(program, programs[program], lightUnit)
    IN  /\ programs' = [programs EXCEPT ![program] = r.uniforms]
        /\ op' = [name |-> "Disable", arg |-> <<program, lightUnit>>,
                  ret |-> r.writes]
        /\ QueueUnchanged
        /\ UNCHANGED <<lights, submitted>>

\* The render queue through its frames.
Next ==
    \/ \E drawable \in Drawables \cup {NullPtr} : AddDrawable(drawable)
    \/ \E light \in DOMAIN lights \cup {NullPtr} : AddLight(light)
    \/ \E model \in Models \cup {NullPtr} : AddModel(model)
    \/ Clear
    \/ \E camera \in Cameras : Sort(camera)

Spec == Init /\ [][Next]_vars

\* Lights that change type while they are submitted to the queue.
NextScene ==
    \/ \E light \in DOMAIN lights \cup {NullPtr} : AddLight(light)
    \/ \E drawable \in Drawables \cup {NullPtr} : AddDrawable(drawable)
    \/ Clear
    \/ \E l \in DOMAIN lights, type \in LightTypeValues : LightSetLightType(l, type)

SpecScene == InitScene /\ [][NextScene]_vars

\* One light, its setters and readers, and its submission to the queue.
NextLight ==
    \/ \E light \in DOMAIN lights \cup {NullPtr} : AddLight(light)
    \/ Clear
    \/ \E l \in DOMAIN lights, type \in LightTypeValues : LightSetLightType(l, type)
    \/ \E l \in DOMAIN lights, radius \in Radii : LightSetRadius(l, radius)
    \/ \E l \in DOMAIN lights, outerAngle \in OuterAngles : LightSetOuterAngle(l, outerAngle)
    \/ \E l \in DOMAIN lights, position \in Positions : LightSetPosition(l, position)
    \/ \E l \in DOMAIN lights, rotation \in Rotations : LightSetRotation(l, rotation)
    \/ \E l \in DOMAIN lights : LightGetBoundingVolume(l)
    \/ \E l \in DOMAIN lights, frustum \in Frustums : LightFrustumCull(l, frustum)

SpecLight == InitLight /\ [][NextLight]_vars

\* The grouping keys: submissions of every material with every static mesh.
NextKeys ==
    \/ \E material \in Materials, staticMesh \in StaticMeshes :
            AddStaticSubMesh(material, staticMesh, Matrix(VecZero, 1))
    \/ Clear

SpecKeys == Init /\ [][NextKeys]_vars

\* A scene of one light constructed Point or Spot.
InitCache ==
    /\ InitQueue
    /\ programs = LinkedPrograms({})
    /\ lights \in [{101} -> {NewLight(nzLightType_Point), NewLight(nzLightType_Spot)}]

\* One light that keeps the type it was constructed with.
NextCache ==
    \/ \E l \in DOMAIN lights, radius \in Radii : LightSetRadius(l, radius)
    \/ \E l \in DOMAIN lights, outerAngle \in OuterAngles : LightSetOuterAngle(l, outerAngle)
    \/ \E l \in DOMAIN lights, position \in Positions : LightSetPosition(l, position)
    \/ \E l \in DOMAIN lights, rotation \in Rotations : LightSetRotation(l, rotation)
    \/ \E l \in DOMAIN lights : LightGetBoundingVolume(l)
    \/ \E l \in DOMAIN lights, frustum \in Frustums : LightFrustumCull(l, frustum)

SpecCache == InitCache /\ [][NextCache]_vars

\* A scene of one light, constructed with some type value, and one program.
InitShader ==
    /\ InitQueue
    /\ lights \in [{101} -> {NewLight(t) : t \in LightTypeValues}]
    /\ \E program \in Programs : programs = LinkedPrograms({program})

\* One light uploaded to the light units of one program.
NextShader ==
    \/ \E l \in DOMAIN lights, program \in DOMAIN programs, lightUnit \in LightUnits :
            LightEnable(l, program, lightUnit)
    \/ \E program \in DOMAIN programs, lightUnit \in LightUnits :
            LightDisable(program, lightUnit)
    \/ \E l \in DOMAIN lights, position \in Positions : LightSetPosition(l, position)

SpecShader == InitShader /\ [][NextShader]_vars

\* One light, the setters of its shading parameters among reads of its volume.
NextSetters ==
    \/ \E l \in DOMAIN lights, factor \in AmbientFactors : LightSetAmbientFactor(l, factor)
    \/ \E l \in DOMAIN lights, attenuation \in Attenuations : LightSetAttenuation(l, attenuation)
    \/ \E l \in DOMAIN lights, color \in Colors : LightSetColor(l, color)
    \/ \E l \in DOMAIN lights, factor \in DiffuseFactors : LightSetDiffuseFactor(l, factor)
    \/ \E l \in DOMAIN lights, innerAngle \in InnerAngles : LightSetInnerAngle(l, innerAngle)
    \/ \E l \in DOMAIN lights, radius \in Radii : LightSetRadius(l, radius)
    \/ \E l \in DOMAIN lights, position \in Positions : LightSetPosition(l, position)
    \/ \E l \in DOMAIN lights : LightGetBoundingVolume(l)

SpecSetters == InitLight /\ [][NextSetters]_vars

(***************************************************************************)
(* Properties                                                              *)
(***************************************************************************)
\* The transforms of the (material, mesh) submissions of a log, in order.
RECURSIVE TransformsOf(_, _, _)
TransformsOf(log, material, mesh) ==
    IF log = <<>>
    THEN <<>>
    ELSE LET rest == TransformsOf(Tail(log), material, mesh)
         IN  IF Head(log).material = material /\ Head(log).mesh = mesh
             THEN <<Head(log).transformMatrix>> \o rest
             ELSE rest

\* The places <<i, j>> of visibleModels keyed by (material, mesh).
BucketsOf(models, material, mesh) ==
    {ij \in (1..Len(models)) \X (1..MaxQueue + 1) :
        /\ models[ij[1]].key = material
        /\ ij[2] <= Len(models[ij[1]].value)
        /\ models[ij[1]].value[ij[2]].key = mesh}

\* The submissions of a log whose material has (or has not) alpha blending.
RECURSIVE WithAlpha(_, _)
WithAlpha(log, alpha) ==
    IF log = <<>>
    THEN <<>>
    ELSE IF IsAlphaBlendingEnabled(Head(log).material) = alpha
         THEN <<Head(log)>> \o WithAlpha(Tail(log), alpha)
         ELSE WithAlpha(Tail(log), alpha)

TransparentRecord(r) ==
    [material |-> r.material, mesh |-> r.mesh, transformMatrix |-> r.transformMatrix]

\* Signed distance from a camera's near plane to the record an entry of the
\* index list refers to.
EntryDistance(camera, entry) ==
    PlaneDistance(GetNearPlane(camera),
        GetTranslation((IF entry[2]
                        THEN transparentStaticModels[entry[1] + 1]
                        ELSE transparentSkeletalModels[entry[1] + 1]).transformMatrix))

IsPermutationOf(s, t) ==
    /\ Len(s) = Len(t)
    /\ \A e \in Range(s) \cup Range(t) :
          Cardinality({i \in 1..Len(s) : s[i] = e})
              = Cardinality({i \in 1..Len(t) : t[i] = e})

AcceptedModel(name, arg) ==
    name = "AddModel" /\ arg # NullPtr /\ IsDrawable(arg)

\* C1: right after Clear the seven containers are empty, whatever was
\* submitted and sorted before: the queue is the freshly constructed one.
C1_ClearGivesFreshQueue ==
    op.name = "Clear" => Queue = EmptyQueue

\* Clear has run on a queue that held at least two elements.
C1_Witness ==
    op.name = "Clear" /\ op.arg >= 2

\* C2: for every material without alpha blending and every static mesh,
\* visibleModels holds no bucket for the pair when nothing was submitted for
\* it since the last Clear, and otherwise exactly one, whose transforms are
\* those of the pair's submissions in submission order.
C2_OneBucketPerPair ==
    \A material \in Materials, mesh \in StaticMeshes :
        ~IsAlphaBlendingEnabled(material) =>
            LET T == TransformsOf(submitted, material, mesh)
                B == BucketsOf(visibleModels, material, mesh)
            IN  IF T = <<>>
                THEN B = {}
                ELSE /\ Cardinality(B) = 1
                     /\ \A ij \in B : visibleModels[ij[1]].value[ij[2]].value = T

\* One bucket holds two different transforms of the same pair.
C2_Witness ==
    \E ij \in BucketsOf(visibleModels, 11, 21) :
        LET T == visibleModels[ij[1]].value[ij[2]].value
        IN  Len(T) = 2 /\ T[1] # T[2] /\ T = TransformsOf(submitted, 11, 21)

\* C3: AddModel of a non-null drawable model records each static submesh
\* once and in one place: the submeshes whose material has alpha blending
\* are appended, in order, to transparentStaticModels, each with one entry
\* (its index, static) appended to visibleTransparentsModels, and leave
\* visibleModels alone; the others add one transform each to visibleModels
\* and nothing to the transparent stores.
C3_OneRecordOnePlace ==
    [][AcceptedModel(op'.name, op'.arg) =>
        LET subs == StaticSubmissions(op'.arg)
            tS   == WithAlpha(subs, TRUE)
            oS   == WithAlpha(subs, FALSE)
            n    == Len(transparentStaticModels)
        IN  /\ transparentStaticModels' = transparentStaticModels
                   \o [i \in 1..Len(tS) |-> TransparentRecord(tS[i])]
            /\ visibleTransparentsModels' = visibleTransparentsModels
                   \o [i \in 1..Len(tS) |-> <<n + i - 1, TRUE>>]
            /\ transparentSkeletalModels' = transparentSkeletalModels
            /\ TransformCount(visibleModels') = TransformCount(visibleModels) + Len(oS)
            /\ oS = <<>> => visibleModels' = visibleModels
            /\ \A i \in 1..Len(visibleModels') :
                  ~IsAlphaBlendingEnabled(visibleModels'[i].key)
            /\ \A i \in 1..Len(oS) :
                  BucketsOf(visibleModels', oS[i].material, oS[i].mesh) # {}
    ]_vars

\* A transparent model was submitted whose mesh an opaque bucket already holds.
C3_Witness ==
    /\ op.name = "AddModel" /\ op.arg = 83
    /\ BucketsOf(visibleModels, 11, 21) # {}
    /\ transparentStaticModels[Len(transparentStaticModels)].mesh = 21

\* C4: Sort leaves visibleTransparentsModels a permutation of what it was:
\* the same entries, each as many times.
C4_SortPermutes ==
    [][op'.name = "Sort" =>
        IsPermutationOf(visibleTransparentsModels', visibleTransparentsModels)]_vars

\* Sort has moved the entry submitted first away from the front of a list of
\* three.
C4_Witness ==
    /\ op.name = "Sort"
    /\ Len(visibleTransparentsModels) = 3
    /\ visibleTransparentsModels[1][1] # 0

\* The distances of the entries of the index list, in list order.
DistanceSeq(camera, list) ==
    [i \in 1..Len(list) |-> EntryDistance(camera, list[i])]

Resorted == op.name = "Sort" /\ op'.name = "Sort" /\ op'.arg = op.arg

\* C5 as stated: a second Sort with the same camera, nothing submitted in
\* between, leaves visibleTransparentsModels in the order the first call
\* produced, also when records are at equal distance.
C5_ResortKeepsOrder ==
    [][Resorted => visibleTransparentsModels' = visibleTransparentsModels]_vars

\* C5, amended: a second Sort with the same camera, nothing submitted in
\* between, leaves the index list a permutation with the same sequence of
\* distances, and in exactly the same order when the distances of the records
\* to the near plane are pairwise different.
C5_ResortKeepsOrderOfDistinct ==
    [][Resorted =>
        /\ IsPermutationOf(visibleTransparentsModels', visibleTransparentsModels)
        /\ DistanceSeq(op.arg, visibleTransparentsModels')
               = DistanceSeq(op.arg, visibleTransparentsModels)
        /\ (\A i, j \in 1..Len(visibleTransparentsModels) :
               i # j => EntryDistance(op.arg, visibleTransparentsModels[i])
                            # EntryDistance(op.arg, visibleTransparentsModels[j]))
           => visibleTransparentsModels' = visibleTransparentsModels
    ]_vars

\* A second Sort with the same camera has run on records at pairwise
\* different distances that the first Sort had to reorder.
C5_Witness ==
    /\ op.name = "Sort" /\ op.ret
    /\ Len(visibleTransparentsModels) >= 2
    /\ visibleTransparentsModels[1][1] # 0
    /\ \A i, j \in 1..Len(visibleTransparentsModels) :
          i # j => EntryDistance(op.arg, visibleTransparentsModels[i])
                       # EntryDistance(op.arg, visibleTransparentsModels[j])

\* C6: right after Sort(camera) the entries of visibleTransparentsModels are in
\* ascending order of the signed distance from the camera's near plane to the
\* translation of the record each refers to.
C6_SortedAscending ==
    op.name = "Sort" =>
        \A i, j \in 1..Len(visibleTransparentsModels) :
            i < j => EntryDistance(op.arg, visibleTransparentsModels[i])
                         <= EntryDistance(op.arg, visibleTransparentsModels[j])

\* Sort has put a record submitted later, and nearer to the plane, first.
C6_Witness ==
    /\ op.name = "Sort"
    /\ Len(visibleTransparentsModels) >= 2
    /\ visibleTransparentsModels[1][1] > visibleTransparentsModels[2][1]
    /\ EntryDistance(op.arg, visibleTransparentsModels[1])
           < EntryDistance(op.arg, visibleTransparentsModels[2])

RejectedCall(name, arg) ==
    \/ name = "AddLight" /\ arg = NullPtr
    \/ name = "AddDrawable" /\ arg = NullPtr
    \/ name = "AddModel" /\ arg = NullPtr
    \/ name = "AddModel" /\ arg # NullPtr /\ ~IsDrawable(arg)

\* C7: AddLight(null), AddDrawable(null), AddModel(null) and AddModel of a
\* model that is not drawable leave every container of the queue as it was.
C7_RejectedCallsChangeNothing ==
    [][RejectedCall(op'.name, op'.arg) => Queue' = Queue]_vars

\* A null drawable was submitted to a queue that holds something.
C7_Witness ==
    /\ op.name = "AddDrawable" /\ op.arg = NullPtr
    /\ QueueSize(Queue) >= 2

KnownLightType(type) ==
    type \in {nzLightType_Directional, nzLightType_Point, nzLightType_Spot}

\* C8: AddLight of a non-null light whose type, as the call finds it, is
\* Directional appends the light to directionnalLights and leaves visibleLights
\* alone; Point or Spot: appends it to visibleLights and leaves
\* directionnalLights alone.  No other container and no light changes.
C8_AddLightClassifiesByType ==
    [][(op'.name = "AddLight" /\ op'.arg # NullPtr
            /\ KnownLightType(lights[op'.arg].m_type)) =>
        LET type == lights[op'.arg].m_type
        IN  /\ directionnalLights' =
                   IF type = nzLightType_Directional
                   THEN Append(directionnalLights, op'.arg)
                   ELSE directionnalLights
            /\ visibleLights' =
                   IF type = nzLightType_Directional
                   THEN visibleLights
                   ELSE Append(visibleLights, op'.arg)
            /\ otherDrawables' = otherDrawables
            /\ visibleModels' = visibleModels
            /\ visibleTransparentsModels' = visibleTransparentsModels
            /\ transparentStaticModels' = transparentStaticModels
            /\ transparentSkeletalModels' = transparentSkeletalModels
            /\ lights' = lights
    ]_vars

\* A Spot light was submitted twice, after another light, and once more when
\* it had become Directional.
C8_Witness ==
    /\ op.name = "AddLight" /\ op.arg = 101
    /\ visibleLights = <<102, 101, 101>> \/
           (visibleLights = <<102, 101>> /\ directionnalLights = <<101>>)
    /\ lights[101].m_type \in {nzLightType_Spot, nzLightType_Directional}

\* C9: a light whose type is none of Directional, Point, Spot is absorbed:
\* AddLight leaves every container unchanged, and FrustumCull returns false
\* for every frustum and leaves the light, its bounding volume and the valid
\* flag of the volume as they were.
C9_UnknownTypeAbsorbed ==
    [][/\ (op'.name = "AddLight" /\ op'.arg # NullPtr
              /\ ~KnownLightType(lights[op'.arg].m_type))
          => (Queue' = Queue /\ lights' = lights)
       /\ (op'.name = "FrustumCull" /\ ~KnownLightType(lights[op'.arg[1]].m_type))
          => (op'.ret = FALSE /\ lights' = lights /\ Queue' = Queue)
    ]_vars

\* FrustumCull has run on a light of unknown type whose volume was built when
\* it was a Point light and is stale since the light moved.
C9_Witness ==
    /\ op.name = "FrustumCull" /\ op.ret = FALSE
    /\ ~KnownLightType(lights[op.arg[1]].m_type)
    /\ lights[op.arg[1]].m_boundingVolume.extend = "Finite"
    /\ ~lights[op.arg[1]].m_boundingVolumeUpdated
    /\ lights[op.arg[1]].m_position # VecZero

\* The queue after the Static case has run for each submission of a log.
RECURSIVE QueueStatics(_, _)
QueueStatics(q, log) ==
    IF log = <<>>
    THEN q
    ELSE QueueStatics(StaticCase(q, Head(log).material, Head(log).mesh,
                                 Head(log).transformMatrix), Tail(log))

HasSkeletal(model) ==
    \E i \in 0..GetSubMeshCount(model) - 1 :
        GetSubMesh(model, i).animationType = "Skeletal"

\* C10: AddModel of a model with a skeletal submesh leaves the queue as the
\* static submeshes alone, in their order, would leave it: the skeletal one adds
\* nothing to any container and the static ones before and after it are queued.
C10_SkeletalSubMeshDropped ==
    [][(AcceptedModel(op'.name, op'.arg) /\ HasSkeletal(op'.arg)) =>
        /\ Queue' = QueueStatics(Queue, StaticSubmissions(op'.arg))
        /\ transparentSkeletalModels' = <<>>
        /\ QueueSize(Queue') = QueueSize(Queue) + Len(StaticSubmissions(op'.arg))
    ]_vars

\* The model whose mesh is static, skeletal, static was submitted: its first
\* submesh is in the transparent store, its last in visibleModels.
C10_Witness ==
    /\ op.name = "AddModel" /\ op.arg = 84
    /\ Len(transparentStaticModels) = 1
    /\ transparentStaticModels[1].mesh = 22
    /\ BucketsOf(visibleModels, 11, 22) # {}

\* C11: FrustumCull of a Directional light returns true for every frustum,
\* whatever the state of the bounding volume and of the derived transform, and
\* changes no field of the light.
C11_DirectionalAlwaysVisible ==
    [][(op'.name = "FrustumCull"
            /\ lights[op'.arg[1]].m_type = nzLightType_Directional)
        => (op'.ret = TRUE /\ lights' = lights)]_vars

\* FrustumCull has run on a Directional light far from the frustum, whose
\* volume is a stale box built when the light was of another type and whose
\* derived transform is stale.
C11_Witness ==
    /\ op.name = "FrustumCull" /\ op.ret = TRUE /\ op.arg[2] = 1
    /\ lights[op.arg[1]].m_type = nzLightType_Directional
    /\ lights[op.arg[1]].m_boundingVolume.extend = "Finite"
    /\ ~lights[op.arg[1]].m_boundingVolumeUpdated
    /\ ~lights[op.arg[1]].m_derivedUpdated
    /\ lights[op.arg[1]].m_position = Vec(0, 0, 20)

\* C12: FrustumCull of a Point light returns whether the frustum contains the
\* sphere of the light's current radius at its current world position, the
\* derived transform being refreshed by the call; the cached bounding volume
\* is neither read nor written and its valid flag stays as it was.
C12_PointCullIsSphereTest ==
    [][(op'.name = "FrustumCull"
            /\ lights[op'.arg[1]].m_type = nzLightType_Point) =>
        LET light == lights[op'.arg[1]]
            after == lights'[op'.arg[1]]
        IN  /\ op'.ret = ContainsSphere(op'.arg[2], light.m_position, light.m_radius)
            /\ after.m_derivedUpdated
            /\ after.m_derivedPosition = light.m_position
            /\ after.m_boundingVolume = light.m_boundingVolume
            /\ after.m_boundingVolumeUpdated = light.m_boundingVolumeUpdated
    ]_vars

\* FrustumCull of a Point light of radius 2 has returned true although the
\* cached volume, built before the light moved, lies outside the frustum and
\* is still marked stale.
C12_Witness ==
    /\ op.name = "FrustumCull" /\ op.ret = TRUE
    /\ lights[op.arg[1]].m_type = nzLightType_Point
    /\ lights[op.arg[1]].m_position # VecZero
    /\ lights[op.arg[1]].m_boundingVolume.extend = "Finite"
    /\ ~lights[op.arg[1]].m_boundingVolumeUpdated
    /\ ~ContainsVolume(op.arg[2], lights[op.arg[1]].m_boundingVolume)

\* The volume of a Point or Spot light computed from nothing but its radius,
\* outer angle and world pose.
ScratchVolume(light) ==
    LET r     == light.m_radius
        shape == IF light.m_type = nzLightType_Point
                 THEN Box(Vec(0 - r, 0 - r, 0 - r), Vec(r, r, r))
                 ELSE SpotBox(r, light.m_outerAngle)
        rot   == IF light.m_type = nzLightType_Point
                 THEN "Identity" ELSE light.m_rotation
    IN  [extend |-> "Finite",
         obb    |-> shape,
         aabb   |-> Box(VecAdd(Rotate(rot, shape.min), light.m_position),
                        VecAdd(Rotate(rot, shape.max), light.m_position))]

\* C13: for a Point or Spot light that keeps its type, GetBoundingVolume
\* returns the volume computed from scratch for the current radius, outer
\* angle and world pose, and a cache marked valid holds that volume; right
\* after SetRadius or SetOuterAngle the cached shape is null and the valid
\* flag false.
C13_VolumeReflectsSetters ==
    \A l \in DOMAIN lights :
        /\ (op.name = "GetBoundingVolume" /\ op.arg = l)
              => op.ret.volume = ScratchVolume(lights[l])
        /\ lights[l].m_boundingVolumeUpdated
              => lights[l].m_boundingVolume = ScratchVolume(lights[l])
        /\ (op.name \in {"SetRadius", "SetOuterAngle"} /\ op.arg = l)
              => /\ VolumeIsNull(lights[l].m_boundingVolume)
                 /\ ~lights[l].m_boundingVolumeUpdated

\* GetBoundingVolume has recomputed the volume of a turned, moved Spot light
\* whose radius and outer angle are not those of its construction.
C13_Witness ==
    /\ op.name = "GetBoundingVolume" /\ op.ret.recomputed
    /\ lights[op.arg].m_type = nzLightType_Spot
    /\ lights[op.arg].m_radius # DefaultRadius
    /\ lights[op.arg].m_outerAngle # DefaultOuterAngle
    /\ lights[op.arg].m_position # VecZero
    /\ lights[op.arg].m_rotation # "Identity"

ShadingSetters ==
    {"SetAmbientFactor", "SetAttenuation", "SetColor", "SetDiffuseFactor",
     "SetInnerAngle"}

\* C14: SetAmbientFactor, SetAttenuation, SetColor, SetDiffuseFactor and
\* SetInnerAngle leave the cached bounding volume, its valid flag and the
\* derived transform as they were, and a GetBoundingVolume that comes right
\* after such a setter called on a valid cache returns the cached volume
\* without going through UpdateBoundingVolume.
C14_ShadingSettersKeepCache ==
    [][/\ op'.name \in ShadingSetters =>
             LET light == lights[op'.arg]
                 after == lights'[op'.arg]
             IN  /\ after.m_boundingVolume = light.m_boundingVolume
                 /\ after.m_boundingVolumeUpdated = light.m_boundingVolumeUpdated
                 /\ after.m_derivedUpdated = light.m_derivedUpdated
                 /\ after.m_radius = light.m_radius
                 /\ after.m_outerAngle = light.m_outerAngle
       /\ (op.name \in ShadingSetters /\ op.ret
               /\ op'.name = "GetBoundingVolume" /\ op'.arg = op.arg) =>
             /\ ~op'.ret.recomputed
             /\ op'.ret.volume = lights[op.arg].m_boundingVolume
             /\ lights' = lights
    ]_vars

\* SetInnerAngle has run on a light whose volume, a box, was valid and still
\* is, after each of the five parameters was given another value.
C14_Witness ==
    /\ op.name = "SetInnerAngle" /\ op.ret
    /\ lights[op.arg].m_boundingVolumeUpdated
    /\ lights[op.arg].m_boundingVolume.extend = "Finite"
    /\ lights[op.arg].m_innerAngle # DefaultInnerAngle
    /\ lights[op.arg].m_color # "White"
    /\ lights[op.arg].m_attenuation # DefaultAttenuation
    /\ lights[op.arg].m_diffuseFactor # DefaultDiffuseFactor
    /\ lights[op.arg].m_ambientFactor # 0

\* C15: the second of two consecutive GetBoundingVolume calls returns the
\* volume the first returned, finds the valid flag true, does not go through
\* UpdateBoundingVolume and changes nothing, for every light type and every
\* state of the cache before the first call.
C15_GetBoundingVolumeIdempotent ==
    [][(op.name = "GetBoundingVolume" /\ op'.name = "GetBoundingVolume"
            /\ op'.arg = op.arg) =>
        /\ lights[op.arg].m_boundingVolumeUpdated
        /\ op'.ret.volume = op.ret.volume
        /\ ~op'.ret.recomputed
        /\ lights' = lights
    ]_vars

\* GetBoundingVolume has run twice in a row on a Directional light whose
\* cache holds a box built when the light was of another type.
C15_Witness ==
    /\ op.name = "GetBoundingVolume" /\ op.ret.again
    /\ lights[op.arg].m_type = nzLightType_Directional
    /\ op.ret.volume.extend = "Finite"

\* The storage of a mesh's index buffer, null for a mesh without one.
IndexStorage(subMesh) ==
    IF GetIndexBuffer(subMesh) # NullPtr
    THEN GetBuffer(GetIndexBuffer(subMesh))
    ELSE NullPtr

\* C16: two static meshes whose index buffers have different storage are
\* ordered by the comparator as these storages are (null first), whatever
\* their vertex buffers: stated of every two meshes that are keys of the same
\* material of visibleModels.
C16_IndexStorageDecides ==
    \A i \in 1..Len(visibleModels) :
        LET keys == {e.key : e \in Range(visibleModels[i].value)}
        IN  \A subMesh1, subMesh2 \in keys :
                IndexStorage(subMesh1) # IndexStorage(subMesh2) =>
                    StaticMeshComparator(subMesh1, subMesh2)
                        = (IndexStorage(subMesh1) < IndexStorage(subMesh2))

\* The order of materials the comparator is to realise: custom shader before
\* none, then shader identity, then (without custom shader) the shader flags,
\* then material identity.
MaterialPrecedes(a, b) ==
    LET sa == GetCustomShader(a)
        sb == GetCustomShader(b)
    IN  CASE sa # NullPtr /\ sb = NullPtr -> TRUE
          [] sa = NullPtr /\ sb # NullPtr -> FALSE
          [] sa # NullPtr /\ sb # NullPtr /\ sa # sb -> sa < sb
          [] sa = NullPtr /\ sb = NullPtr /\ GetShaderFlags(a) # GetShaderFlags(b) ->
                GetShaderFlags(a) < GetShaderFlags(b)
          [] OTHER -> a < b

\* C17: MaterialComparator is a strict total order of the materials
\* (irreflexive, asymmetric, transitive, any two different materials
\* comparable) with the precedence custom shader, shader identity, shader
\* flags, material identity; the keys of visibleModels stand in that order.
C17_MaterialOrder ==
    /\ \A a, b \in Materials : MaterialComparator(a, b) = MaterialPrecedes(a, b)
    /\ \A a \in Materials : ~MaterialComparator(a, a)
    /\ \A a, b \in Materials : MaterialComparator(a, b) => ~MaterialComparator(b, a)
    /\ \A a, b, c \in Materials :
          MaterialComparator(a, b) /\ MaterialComparator(b, c) => MaterialComparator(a, c)
    /\ \A a, b \in Materials :
          a # b => MaterialComparator(a, b) \/ MaterialComparator(b, a)
    /\ \A i, j \in 1..Len(visibleModels) :
          i < j => MaterialPrecedes(visibleModels[i].key, visibleModels[j].key)

\* Three materials submitted last to first stand in visibleModels with the
\* custom shaders first, the lower shader before the higher, although the
\* material of the higher shader has the lower address.
C17_Witness ==
    /\ Len(visibleModels) = 3
    /\ visibleModels[1].key = 15 /\ visibleModels[2].key = 13
    /\ visibleModels[3].key = 17
    /\ submitted[1].material = 17 /\ submitted[3].material = 15

\* C18: Sort changes nothing but the order of visibleTransparentsModels: the
\* two stores keep every record at its position, visibleModels and the lists
\* of lights and drawables are as before, and each entry of the index list is
\* an entry it held before, referring to the same record.
C18_SortMovesOnlyIndices ==
    [][op'.name = "Sort" =>
        /\ transparentStaticModels' = transparentStaticModels
        /\ transparentSkeletalModels' = transparentSkeletalModels
        /\ visibleModels' = visibleModels
        /\ directionnalLights' = directionnalLights
        /\ visibleLights' = visibleLights
        /\ otherDrawables' = otherDrawables
        /\ \A e \in Range(visibleTransparentsModels') :
              /\ e \in Range(visibleTransparentsModels)
              /\ (IF e[2] THEN transparentStaticModels'[e[1] + 1]
                          ELSE transparentSkeletalModels'[e[1] + 1])
                   = (IF e[2] THEN transparentStaticModels[e[1] + 1]
                              ELSE transparentSkeletalModels[e[1] + 1])
    ]_vars

\* Sort has brought the second record in front of the first in a queue that
\* also holds an opaque bucket; the records are where they were submitted.
C18_Witness ==
    /\ op.name = "Sort"
    /\ visibleTransparentsModels = <<(<<1, TRUE>>), (<<0, TRUE>>)>>
    /\ transparentStaticModels[1].mesh = 21
    /\ transparentStaticModels[2].mesh = 22
    /\ visibleModels # <<>>

\* A local shape placed in the world as the light's type asks: by the
\* position for Point, by the position and the rotation for Spot.
PlacedBox(light, shape) ==
    LET rot == IF light.m_type = nzLightType_Spot
               THEN light.m_rotation ELSE "Identity"
    IN  Box(VecAdd(Rotate(rot, shape.min), light.m_position),
            VecAdd(Rotate(rot, shape.max), light.m_position))

\* C19: a transform change (Invalidate) clears the valid flag of the volume
\* and of the derived transform and keeps the cached volume as it is; the
\* next GetBoundingVolume of a Point or Spot light, and the next FrustumCull
\* of a Spot light, keep the retained local shape, place it at the current
\* world pose and set the flag; FrustumCull of a Spot light returns whether
\* the frustum contains the volume so placed.
C19_InvalidateKeepsShape ==
    [][/\ op'.name \in {"SetPosition", "SetRotation"} =>
             LET light == lights[op'.arg]
                 after == lights'[op'.arg]
             IN  /\ after.m_boundingVolume = light.m_boundingVolume
                 /\ ~after.m_boundingVolumeUpdated
                 /\ ~after.m_derivedUpdated
       /\ (op'.name = "GetBoundingVolume"
               /\ lights[op'.arg].m_type \in {nzLightType_Point, nzLightType_Spot}
               /\ ~lights[op'.arg].m_boundingVolumeUpdated
               /\ ~VolumeIsNull(lights[op'.arg].m_boundingVolume)) =>
             LET light == lights[op'.arg]
                 after == lights'[op'.arg]
             IN  /\ after.m_boundingVolume.obb = light.m_boundingVolume.obb
                 /\ after.m_boundingVolume.aabb
                        = PlacedBox(light, light.m_boundingVolume.obb)
                 /\ after.m_boundingVolumeUpdated
                 /\ op'.ret.volume = after.m_boundingVolume
       /\ (op'.name = "FrustumCull"
               /\ lights[op'.arg[1]].m_type = nzLightType_Spot) =>
             LET light == lights[op'.arg[1]]
                 after == lights'[op'.arg[1]]
             IN  /\ after.m_boundingVolumeUpdated
                 /\ op'.ret = ContainsVolume(op'.arg[2], after.m_boundingVolume)
                 /\ (~light.m_boundingVolumeUpdated
                        /\ ~VolumeIsNull(light.m_boundingVolume)) =>
                       /\ after.m_boundingVolume.obb = light.m_boundingVolume.obb
                       /\ after.m_boundingVolume.aabb
                              = PlacedBox(light, light.m_boundingVolume.obb)
                 /\ light.m_boundingVolumeUpdated =>
                       after.m_boundingVolume = light.m_boundingVolume
    ]_vars

\* FrustumCull of a moved and turned Spot light has returned true on a volume
\* whose local shape is not the one its radius and outer angle give: the shape
\* was retained and placed again, not rebuilt.
C19_Witness ==
    /\ op.name = "FrustumCull" /\ op.ret = TRUE
    /\ lights[op.arg[1]].m_type = nzLightType_Spot
    /\ lights[op.arg[1]].m_position # VecZero
    /\ lights[op.arg[1]].m_rotation # "Identity"
    /\ lights[op.arg[1]].m_boundingVolumeUpdated
    /\ lights[op.arg[1]].m_boundingVolume.extend = "Finite"
    /\ lights[op.arg[1]].m_boundingVolume.obb
           # SpotBox(lights[op.arg[1]].m_radius, lights[op.arg[1]].m_outerAngle)
    /\ lights[op.arg[1]].m_boundingVolume.aabb
           = PlacedBox(lights[op.arg[1]], lights[op.arg[1]].m_boundingVolume.obb)

\* loc(Lights[k].field) of a program.
Loc(program, k, field) == GetUniformLocation(program, UniformName(k, field))

\* Whether the locations of a program are array-contiguous over the light
\* units: every unit is declared and lies one stride after the one before.
ArrayContiguous(program) ==
    \A k \in LightUnits, field \in LightFieldNames :
        /\ Loc(program, k, field) # -1
        /\ Loc(program, k, field)
               = Loc(program, 0, field)
                    + k * (Loc(program, 1, "type") - Loc(program, 0, "type"))

\* C20: Enable(program, N) sends the light's type to loc(Lights[0].type)
\* + N * (loc(Lights[1].type) - loc(Lights[0].type)) and each other field it
\* sends to that field's location in slot 0 plus the same offset;
\* Disable(program, N) sends -1 to loc(Lights[N].type); and when the
\* locations of the program are array-contiguous, Disable(N) right after
\* Enable(N) writes the location Enable wrote the type to, which then holds
\* -1, and neither call writes the type of another slot.
C20_EnableDisableSameSlot ==
    [][/\ op'.name = "Enable" =>
             LET program == op'.arg[1]
                 N       == op'.arg[2]
                 offset  == N * (Loc(program, 1, "type") - Loc(program, 0, "type"))
             IN  /\ op'.ret[1].field = "type"
                 /\ op'.ret[1].value = lights[op'.arg[3]].m_type
                 /\ \A i \in 1..Len(op'.ret) :
                       op'.ret[i].location
                           = Loc(program, 0, op'.ret[i].field) + offset
       /\ op'.name = "Disable" =>
             op'.ret = <<Write("type", Loc(op'.arg[1], op'.arg[2], "type"),
                               "int", -1)>>
       /\ (op.name = "Enable" /\ op'.name = "Disable"
               /\ op'.arg[1] = op.arg[1] /\ op'.arg[2] = op.arg[2]
               /\ ArrayContiguous(op.arg[1])) =>
             /\ op'.ret[1].location = op.ret[1].location
             /\ programs[op.arg[1]][op.ret[1].location].value
                    = lights[op.arg[3]].m_type
             /\ programs'[op.arg[1]][op.ret[1].location].value = -1
             /\ \A k \in LightUnits \ {op.arg[2]} :
                   /\ \A i \in 1..Len(op.ret) :
                         op.ret[i].location # Loc(op.arg[1], k, "type")
                   /\ op'.ret[1].location # Loc(op.arg[1], k, "type")
                   /\ programs'[op.arg[1]][Loc(op.arg[1], k, "type")]
                          = programs[op.arg[1]][Loc(op.arg[1], k, "type")]
    ]_vars

\* In the array-contiguous program, unit 2 was enabled with a Spot light and
\* disabled: its type holds -1 beside the parameters Enable wrote, and unit 1,
\* enabled before, still holds the light's type.
C20_Witness ==
    /\ op.name = "Disable" /\ op.arg = <<201, 2>>
    /\ programs[201][Loc(201, 2, "type")].value = -1
    /\ programs[201][Loc(201, 2, "parameters3")].value
           = <<Cos(DefaultInnerAngle), Cos(DefaultOuterAngle)>>
    /\ programs[201][Loc(201, 1, "type")].value = nzLightType_Spot
    /\ programs[201][Loc(201, 0, "type")].value = 0
    /\ programs[201][Loc(201, 0, "color")].value = <<0, 0, 0, 0>>

\* C21: in every state the queue reaches by AddLight, AddDrawable, AddModel,
\* Sort and Clear, the skeletal store is empty, every entry of the index list
\* is tagged static, and the indices of the entries are 0 .. n - 1, each once,
\* n being the size of the static store; so the comparator of Sort, which
\* picks the store of both operands by the tag of the first, reads only
\* positions the store has.
C21_IndexListCoversStore ==
    /\ transparentSkeletalModels = <<>>
    /\ \A i \in 1..Len(visibleTransparentsModels) :
          visibleTransparentsModels[i][2] = TRUE
    /\ Len(visibleTransparentsModels) = Len(transparentStaticModels)
    /\ {visibleTransparentsModels[i][1] : i \in 1..Len(visibleTransparentsModels)}
           = 0..Len(transparentStaticModels) - 1
    /\ \A index1, index2 \in Range(visibleTransparentsModels) :
          LET store == IF index1[2] THEN transparentStaticModels
                                    ELSE transparentSkeletalModels
          IN  index1[1] < Len(store) /\ index2[1] < Len(store)

\* A model was submitted after a Sort that had reordered two records, without
\* a Clear in between: the new entry stands last, behind the reordered ones.
C21_Witness ==
    /\ op.name = "AddModel"
    /\ visibleTransparentsModels = <<(<<1, TRUE>>), (<<0, TRUE>>), (<<2, TRUE>>)>>
    /\ Len(transparentStaticModels) = 3

\* The (material, mesh) pairs submitted as opaque since the last Clear.
OpaquePairs ==
    {<<r.material, r.mesh>> :
        r \in {x \in Range(submitted) : ~IsAlphaBlendingEnabled(x.material)}}

\* The buckets of visibleModels, as <<material, mesh, transforms>>.
Buckets ==
    UNION {{<<visibleModels[i].key, e.key, e.value>> :
               e \in Range(visibleModels[i].value)} : i \in 1..Len(visibleModels)}

RECURSIVE BucketTotal(_)
BucketTotal(m) ==
    IF m = <<>> THEN 0 ELSE Len(Head(m).value) + BucketTotal(Tail(m))

\* C22: submissions whose (material, mesh) pairs differ, in the material or
\* in the mesh, never share a bucket of visibleModels, also when the two
\* meshes share their index and vertex storage: the buckets are as many as
\* the different pairs submitted as opaque since the last Clear, one for each
\* pair, and each holds the transforms of its pair's submissions only.
C22_OneBucketPerDistinctKey ==
    /\ BucketTotal(visibleModels) = Cardinality(OpaquePairs)
    /\ {<<b[1], b[2]>> : b \in Buckets} = OpaquePairs
    /\ \A i, j \in 1..Len(visibleModels) :
          i # j => visibleModels[i].key # visibleModels[j].key
    /\ \A i \in 1..Len(visibleModels) :
          \A j, k \in 1..Len(visibleModels[i].value) :
              j # k => visibleModels[i].value[j].key # visibleModels[i].value[k].key
    /\ \A b \in Buckets : b[3] = TransformsOf(submitted, b[1], b[2])

\* Two meshes that share both storages were submitted with one material, the
\* first of them twice: two buckets, the first with two transforms.
C22_Witness ==
    /\ Len(visibleModels) = 1 /\ visibleModels[1].key = 11
    /\ Len(visibleModels[1].value) = 2
    /\ visibleModels[1].value[1].key = 21 /\ Len(visibleModels[1].value[1].value) = 2
    /\ visibleModels[1].value[2].key = 22
    /\ Len(submitted) = 3

\* Whether a volume is the one defined for the light's type: infinite for
\* Directional, the radius box at the world position for Point, the cone box
\* under the world transform for Spot.
IsVolumeOfType(light, volume) ==
    CASE light.m_type = nzLightType_Directional -> volume.extend = "Infinite"
      [] light.m_type \in {nzLightType_Point, nzLightType_Spot} ->
            volume = ScratchVolume(light)
      [] OTHER -> TRUE

\* C23: whatever SetLightType, SetRadius, SetOuterAngle, Invalidate and
\* GetBoundingVolume calls came before, GetBoundingVolume returns the volume
\* defined for the light's current type, and a cache marked valid holds it;
\* so after a SetLightType to another type it does not return the volume of
\* the type before.
C23_VolumeMatchesType ==
    \A l \in DOMAIN lights :
        /\ (op.name = "GetBoundingVolume" /\ op.arg = l)
              => IsVolumeOfType(lights[l], op.ret.volume)
        /\ lights[l].m_boundingVolumeUpdated
              => IsVolumeOfType(lights[l], lights[l].m_boundingVolume)

\* Whether the lists dl (directional) and vl (visible) agree with the type of
\* light l among the lights ls.
ListsMatchType(dl, vl, ls, l) ==
    /\ l \in Range(dl) => ls[l].m_type = nzLightType_Directional
    /\ l \in Range(vl) => ls[l].m_type \in {nzLightType_Point, nzLightType_Spot}

\* C24 as stated: in every state every light of directionnalLights has the
\* type Directional and every light of visibleLights the type Point or Spot,
\* also after SetLightType was called on a light already submitted.
C24_ListsMatchCurrentType ==
    \A l \in DOMAIN lights :
        ListsMatchType(directionnalLights, visibleLights, lights, l)

\* C24, amended: the two lists agree with the type each light had when it was
\* submitted.  No operation that leaves the type of a light alone breaks the
\* agreement of the lists with that light's type, Clear restores it, and
\* SetLightType changes neither list: the lists agree with the current type of
\* every light on which SetLightType has not been called since the light was
\* submitted.
C24_ListsMatchTypeAtSubmission ==
    [][\A l \in DOMAIN lights :
          /\ (ListsMatchType(directionnalLights, visibleLights, lights, l)
                 /\ lights'[l].m_type = lights[l].m_type)
                => ListsMatchType(directionnalLights', visibleLights', lights', l)
          /\ op'.name = "Clear"
                => ListsMatchType(directionnalLights', visibleLights', lights', l)
          /\ op'.name = "SetLightType"
                => /\ directionnalLights' = directionnalLights
                   /\ visibleLights' = visibleLights
    ]_vars

\* SetLightType has made a Spot light of a light that stands in
\* directionnalLights, beside a Point light that stands in visibleLights and
\* was left alone.
C24_Witness ==
    /\ op.name = "SetLightType" /\ op.arg = 101
    /\ directionnalLights = <<101>>
    /\ lights[101].m_type = nzLightType_Spot
    /\ visibleLights = <<102>>
    /\ lights[102].m_type = nzLightType_Point

=============================================================================
